---- MODULE Spec2Model ----
(***************************************************************************)
(* Model of the business analytics dashboard of src/app.py: the memoized   *)
(* twelve-row table, the range filter, calculate_metrics and the two chart *)
(* builders, driven by the sidebar widgets of main().                      *)
(*                                                                         *)
(* Numbers.  pandas sums an int64 column to an int64 and returns means and *)
(* the growth rate as float64.  A float64 is modelled by the rational it   *)
(* approximates, a pair <<n, d>> in lowest terms with d > 0; <<0, 0>> is   *)
(* NaN (the mean of an empty column).  The rounding of the last bit of a   *)
(* float64 operation is not modelled.                                      *)
(***************************************************************************)
EXTENDS Integers, Sequences, FiniteSets, TLC

VARIABLES df, selected_metric, start_month, end_month, filtered_df,
          total, avg, growth, line_fig, bar_fig, outcome

vars == <<df, selected_metric, start_month, end_month, filtered_df,
          total, avg, growth, line_fig, bar_fig, outcome>>

(***************************************************************************)
(* Bounds of the model.                                                    *)
(***************************************************************************)
\* Indices handed to the core range over -(12 + IndexSlack) .. 11 + IndexSlack.
IndexSlack == 2
\* Synthetic input views have 1 .. MaxRows rows ...
MaxRows == 3
\* ... whose cell values lie within -ValBound .. ValBound.
ValBound == 2

(***************************************************************************)
(* Arithmetic helpers.                                                     *)
(***************************************************************************)
Abs(x) == IF x < 0 THEN -x ELSE x

Sign(x) == IF x < 0 THEN -1 ELSE IF x > 0 THEN 1 ELSE 0

Min(a, b) == IF a < b THEN a ELSE b

Max(a, b) == IF a > b THEN a ELSE b

RECURSIVE GCD(_, _)
GCD(a, b) == IF b = 0 THEN a ELSE GCD(b, a % b)

\* The float n / d: NaN or a signed infinity when d = 0, as numpy divides.
Rat(n, d) ==
    IF d = 0 THEN <<Sign(n), 0>>
    ELSE LET g == GCD(Abs(n), Abs(d))
         IN  <<(Sign(d) * n) \div g, Abs(d) \div g>>

\* The float r * k for an integer k.
RatMul(r, k) == Rat(r[1] * k, r[2])

(***************************************************************************)
(* The dataset.                                                            *)
(***************************************************************************)
Row(m, s, e, c) == [Month |-> m, Sales |-> s, Expenses |-> e, Customers |-> c]

load_data ==
    << Row("Jan", 1000,  800, 100), Row("Feb", 1200,  850, 120),
       Row("Mar",  900,  750, 115), Row("Apr", 1500,  950, 130),
       Row("May", 1800, 1000, 140), Row("Jun", 1700, 1100, 150),
       Row("Jul", 1600, 1200, 160), Row("Aug", 2000, 1300, 170),
       Row("Sep", 2200, 1400, 180), Row("Oct", 1900, 1200, 175),
       Row("Nov", 2100, 1100, 165), Row("Dec", 2500, 1000, 190) >>

\* The options of the metric selectbox.
Metrics == {"Sales", "Expenses", "Customers"}

\* The columns of the table.
Columns == {"Month", "Sales", "Expenses", "Customers"}

\* The columns pandas can average.
NumericColumns == {"Sales", "Expenses", "Customers"}

\* d[col] : the column of table d, in row order.
Column(d, col) == [i \in 1..Len(d) |-> d[i][col]]

\* Python's normalisation of one bound of a slice over n items.
SliceBound(i, n) == IF i < 0 THEN Max(i + n, 0) ELSE Min(i, n)

\* d.iloc[start:stop] (0-based, stop exclusive, negative bounds count from the end).
Iloc(d, start, stop) ==
    LET lo == SliceBound(start, Len(d))
        hi == SliceBound(stop, Len(d))
    IN  IF lo < hi THEN SubSeq(d, lo + 1, hi) ELSE <<>>

\* filtered_df = df.iloc[start_month:end_month+1]
FilterViewExclusive(d, s, e) == Iloc(d, s, e)

FilterView(d, s, e) == Iloc(d, s, e + 1)

RECURSIVE Sum(_)
Sum(col) == IF col = <<>> THEN 0 ELSE col[1] + Sum(Tail(col))

\* Series.mean(): the sum over the count; NaN for an empty column.
MeanSample(col) == Rat(Sum(col), Len(col) - 1)

Mean(col) == Rat(Sum(col), Len(col))

(***************************************************************************)
(* The core: metrics calculator and chart builders.  Each returns a record *)
(* whose status is "ok" or the name of the exception the call raises.      *)
(***************************************************************************)
Raise(exc) == [status |-> exc]

\* growth = ((last - first) / first) * 100 if first > 0 else 0
GrowthNonZeroGuard(first, last) ==
    IF first # 0 THEN RatMul(Rat(last - first, first), 100) ELSE Rat(0, 1)

GrowthOfRatio(first, last) ==
    IF first > 0 THEN RatMul(Rat(last, first), 100) ELSE Rat(0, 1)

Growth(first, last) ==
    IF first > 0 THEN RatMul(Rat(last - first, first), 100) ELSE Rat(0, 1)

calculate_metrics(d, metric) ==
    IF metric \notin Columns THEN Raise("KeyError")            \* df[metric]
    ELSE IF metric \notin NumericColumns THEN Raise("TypeError") \* mean of strings
    ELSE LET col == Column(d, metric)
         IN  IF Len(col) = 0 THEN Raise("IndexError")          \* .iloc[0]
             ELSE [status |-> "ok",
                   total  |-> Sum(col),
                   avg    |-> Mean(col),
                   growth |-> Growth(col[1], col[Len(col)])]

\* px.line(df, x='Month', y=metric, markers=True, title=...) + update_layout
LinePointsReversed(d, metric) ==
    [i \in 1..Len(d) |-> [x |-> d[i].Month, y |-> d[Len(d) + 1 - i][metric]]]

LinePoints(d, metric) ==
    [i \in 1..Len(d) |-> [x |-> d[i].Month, y |-> d[i][metric]]]

update_line_chart(d, metric) ==
    IF metric \notin Columns THEN Raise("ValueError")
    ELSE [status      |-> "ok",
          type        |-> "line",
          markers     |-> TRUE,
          points      |-> LinePoints(d, metric),
          title       |-> <<"Monthly", metric>>,
          xaxis_title |-> "Month",
          yaxis_title |-> metric,
          template    |-> "plotly_white"]

\* avg_data['Average'] of update_bar_chart
BarAveragesUnscaled(d) ==
    << Mean(Column(d, "Sales")),
       Mean(Column(d, "Expenses")),
       Mean(Column(d, "Customers")) >>

BarAverages(d) ==
    << Mean(Column(d, "Sales")),
       Mean(Column(d, "Expenses")),
       RatMul(Mean(Column(d, "Customers")), 10) >>

update_bar_chart(d) ==
    [status   |-> "ok",
     type     |-> "bar",
     Metric   |-> <<"Sales", "Expenses", "Customers">>,
     Average  |-> BarAverages(d),
     color    |-> "Metric",
     title    |-> "Average Metrics",
     template |-> "plotly_white"]

(***************************************************************************)
(* One run of main() on table d with the widget values (metric, s, e).     *)
(* A name the run never binds, because an exception ended it, is Unbound.  *)
(***************************************************************************)
Unbound == <<>>

\* Lines 95-139 of main(): the metrics, then the line chart, then the bar chart;
\* the first exception ends the run.
Render(d, view, metric) ==
    LET m    == calculate_metrics(view, metric)
        line == IF m.status = "ok" THEN update_line_chart(view, metric)
                ELSE Raise(m.status)
        bar  == IF line.status = "ok" THEN update_bar_chart(view)
                ELSE Raise(line.status)
    IN  [df          |-> d,
         filtered_df |-> view,
         total       |-> IF m.status = "ok" THEN m.total  ELSE Unbound,
         avg         |-> IF m.status = "ok" THEN m.avg    ELSE Unbound,
         growth      |-> IF m.status = "ok" THEN m.growth ELSE Unbound,
         line_fig    |-> IF line.status = "ok" THEN line ELSE Unbound,
         bar_fig     |-> IF bar.status = "ok" THEN bar ELSE Unbound,
         outcome     |-> bar.status]

\* A run that scales the Customers column of the table in place.
ScaleCustomers(d) ==
    [i \in 1..Len(d) |-> [d[i] EXCEPT !.Customers = @ * 10]]

RunMainScalingInPlace(d, metric, s, e) ==
    Render(ScaleCustomers(d), FilterView(d, s, e), metric)

RunMain(d, metric, s, e) == Render(d, FilterView(d, s, e), metric)

\* The run's effect on the state.
Show(r, metric, s, e) ==
    /\ df' = r.df
    /\ selected_metric' = metric
    /\ start_month' = s
    /\ end_month' = e
    /\ filtered_df' = r.filtered_df
    /\ total' = r.total
    /\ avg' = r.avg
    /\ growth' = r.growth
    /\ line_fig' = r.line_fig
    /\ bar_fig' = r.bar_fig
    /\ outcome' = r.outcome

(***************************************************************************)
(* The widgets.                                                            *)
(***************************************************************************)
\* options of the selectbox, in order; index=0 is the default.
MetricOptions == <<"Sales", "Expenses", "Customers">>

\* month_names = df['Month'].tolist(); options=range(len(month_names))
SliderOptions(d) == 0 .. (Len(Column(d, "Month")) - 1)

\* A range slider returns its two handles in order.
SliderValuesCrossing(d) == SliderOptions(d) \X SliderOptions(d)

SliderValues(d) ==
    {p \in SliderOptions(d) \X SliderOptions(d) : p[1] <= p[2]}

\* value=(0, 11)
SliderDefault == <<0, 11>>

(***************************************************************************)
(* The dashboard: the first run with the default widget values, then one   *)
(* full run of the script per interaction.                                 *)
(***************************************************************************)
Init ==
    LET r == RunMain(load_data, MetricOptions[1], SliderDefault[1], SliderDefault[2])
    IN  /\ df = r.df
        /\ selected_metric = MetricOptions[1]
        /\ start_month = SliderDefault[1]
        /\ end_month = SliderDefault[2]
        /\ filtered_df = r.filtered_df
        /\ total = r.total
        /\ avg = r.avg
        /\ growth = r.growth
        /\ line_fig = r.line_fig
        /\ bar_fig = r.bar_fig
        /\ outcome = r.outcome

\* A metric change that redraws the line chart and keeps the metrics shown.
SelectMetricRedrawingOnly(m) ==
    /\ m # selected_metric
    /\ selected_metric' = m
    /\ line_fig' = RunMain(df, m, start_month, end_month).line_fig
    /\ UNCHANGED <<df, start_month, end_month, filtered_df, total, avg, growth,
                   bar_fig, outcome>>

SelectMetric(m) ==
    /\ m # selected_metric
    /\ Show(RunMain(df, m, start_month, end_month), m, start_month, end_month)

MoveSlider(s, e) ==
    /\ <<s, e>> # <<start_month, end_month>>
    /\ Show(RunMain(df, selected_metric, s, e), selected_metric, s, e)

Next ==
    \/ \E i \in DOMAIN MetricOptions : SelectMetric(MetricOptions[i])
    \/ \E p \in SliderValues(df) : MoveSlider(p[1], p[2])

Spec == Init /\ [][Next]_vars

(***************************************************************************)
(* The core called without the widgets' constraints: main()'s pipeline on  *)
(* any index pair near the table's range and any metric name, known or not.*)
(***************************************************************************)
CoreIndices == (0 - (Len(load_data) + IndexSlack)) .. (Len(load_data) - 1 + IndexSlack)

CoreMetricNames == Metrics \cup {"Month", "Profit"}

CoreInit ==
    /\ df = load_data
    /\ selected_metric \in CoreMetricNames
    /\ start_month \in CoreIndices
    /\ end_month \in CoreIndices
    /\ filtered_df = Unbound
    /\ total = Unbound
    /\ avg = Unbound
    /\ growth = Unbound
    /\ line_fig = Unbound
    /\ bar_fig = Unbound
    /\ outcome = "pending"

CoreCall ==
    /\ outcome = "pending"
    /\ Show(RunMain(df, selected_metric, start_month, end_month),
            selected_metric, start_month, end_month)

CoreNext == CoreCall

CoreSpec == CoreInit /\ [][CoreNext]_vars

(***************************************************************************)
(* calculate_metrics as a function of its inputs: the views of the dataset *)
(* and of small tables with negative, zero and positive cells.             *)
(***************************************************************************)
CellValues == (0 - ValBound) .. ValBound

SyntheticTable(vs) ==
    [i \in 1..Len(vs) |-> Row(load_data[i].Month, vs[i], 0 - vs[i], Abs(vs[i]))]

SyntheticTables ==
    UNION {{SyntheticTable(vs) : vs \in [1..n -> CellValues]} : n \in 1..MaxRows}

InputTables == {load_data} \cup SyntheticTables

CalcInit ==
    \E d \in InputTables :
      \E p \in SliderValues(d) :
        /\ df = d
        /\ selected_metric \in Metrics
        /\ start_month = p[1]
        /\ end_month = p[2]
        /\ filtered_df = FilterView(d, p[1], p[2])
        /\ total = Unbound
        /\ avg = Unbound
        /\ growth = Unbound
        /\ line_fig = Unbound
        /\ bar_fig = Unbound
        /\ outcome = "pending"

CalcApply ==
    /\ outcome = "pending"
    /\ LET m == calculate_metrics(filtered_df, selected_metric)
       IN  /\ total'  = IF m.status = "ok" THEN m.total  ELSE Unbound
           /\ avg'    = IF m.status = "ok" THEN m.avg    ELSE Unbound
           /\ growth' = IF m.status = "ok" THEN m.growth ELSE Unbound
           /\ outcome' = m.status
    /\ UNCHANGED <<df, selected_metric, start_month, end_month, filtered_df,
                   line_fig, bar_fig>>

CalcNext == CalcApply

CalcSpec == CalcInit /\ [][CalcNext]_vars

(***************************************************************************)
(* Properties.                                                             *)
(***************************************************************************)
\* The first and last cell of the selected column of the current view.
FirstValue == filtered_df[1][selected_metric]

LastValue == filtered_df[Len(filtered_df)][selected_metric]

\* r * scale rounded to the nearest integer, for a finite r >= 0.
RoundTo(r, scale) == (2 * r[1] * scale + r[2]) \div (2 * r[2])

\* The sum of column metric over rows lo..hi (1-based, inclusive) of the dataset.
RECURSIVE SumRows(_, _, _)
SumRows(metric, lo, hi) ==
    IF lo > hi THEN 0 ELSE load_data[lo][metric] + SumRows(metric, lo + 1, hi)

CalendarMonths ==
    <<"Jan", "Feb", "Mar", "Apr", "May", "Jun",
      "Jul", "Aug", "Sep", "Oct", "Nov", "Dec">>

\* C1: for every non-empty view and metric, calculate_metrics returns
\* growth = (last - first) / first * 100 when first > 0 and exactly 0 when
\* first <= 0, always a finite number; Jan..Mar Expenses gives -6.25.
C1_GrowthFormula ==
    outcome = "ok" =>
      /\ growth[2] > 0
      /\ FirstValue > 0 =>
           growth[1] * FirstValue = (LastValue - FirstValue) * 100 * growth[2]
      /\ FirstValue <= 0 => growth = <<0, 1>>
      /\ (df = load_data /\ start_month = 0 /\ end_month = 2
            /\ selected_metric = "Expenses") => growth = <<0 - 25, 4>>

\* A view whose first cell is not positive and differs from its last cell.
C1_Witness ==
    /\ outcome = "ok"
    /\ FirstValue <= 0
    /\ LastValue # FirstValue
    /\ growth = <<0, 1>>

\* C2: an index pair outside [0,11] or with start > end, or a metric name
\* outside {Sales, Expenses, Customers}, never yields an "ok" run.
C2_InvalidInputRejected ==
    (/\ outcome # "pending"
     /\ \/ start_month \notin 0..11
        \/ end_month \notin 0..11
        \/ start_month > end_month
        \/ selected_metric \notin Metrics)
    => outcome # "ok"

\* C3 as stated: the full-year bar chart shows 1700.0, about 1004.17 and
\* 150.4167 x 10 = 1504.167.
C3_BarChartValuesAsStated ==
    (outcome = "ok" /\ start_month = 0 /\ end_month = 11) =>
      LET bars == bar_fig.Average
      IN  /\ bars[1] = <<1700, 1>>
          /\ RoundTo(bars[2], 100) = 100417
          /\ RoundTo(bars[3], 1000) = 1504167
          /\ RoundTo(Rat(bars[3][1], bars[3][2] * 10), 10000) = 1504167

\* C3: the full-year bar chart shows 1700.0, about 1054.17 and
\* 149.5833 x 10 = 1495.833; in every view the Customers bar is 10 times
\* the mean of Customers.
C3_BarChartValues ==
    /\ outcome = "ok"
    /\ LET bars == bar_fig.Average
           customers == Column(filtered_df, "Customers")
       IN  /\ bars[3][2] > 0
           /\ bars[3][1] * Len(customers) = 10 * Sum(customers) * bars[3][2]
           /\ (start_month = 0 /\ end_month = 11) =>
                /\ bars[1] = <<1700, 1>>
                /\ RoundTo(bars[2], 100) = 105417
                /\ RoundTo(bars[3], 1000) = 1495833
                /\ RoundTo(Rat(bars[3][1], bars[3][2] * 10), 10000) = 1495833

C3_Witness ==
    /\ outcome = "ok"
    /\ start_month = 0
    /\ end_month = 11
    /\ selected_metric = "Customers"
    /\ bar_fig.Average = << <<1700, 1>>, <<6325, 6>>, <<8975, 6>> >>

\* C4: the total is the sum of the selected column over exactly the rows
\* start..end of the table, both inclusive, in calendar order.
C4_TotalOverInclusiveRange ==
    /\ outcome = "ok"
    /\ Len(filtered_df) = end_month - start_month + 1
    /\ \A i \in 1..Len(filtered_df) : filtered_df[i] = load_data[start_month + i]
    /\ total = SumRows(selected_metric, start_month + 1, end_month + 1)
    /\ (start_month = 0 /\ end_month = 11 /\ selected_metric = "Sales")
         => total = 20400
    /\ (start_month = 0 /\ end_month = 2 /\ selected_metric = "Expenses")
         => total = 2400

C4_Witness ==
    /\ outcome = "ok"
    /\ start_month = 0
    /\ end_month = 2
    /\ selected_metric = "Expenses"
    /\ total = 2400

\* C5: for the full-range view the average is the total divided by 12.
C5_FullRangeAverage ==
    (start_month = 0 /\ end_month = 11) =>
      /\ outcome = "ok"
      /\ avg[2] > 0
      /\ avg[1] * 12 = total * avg[2]
      /\ selected_metric = "Sales" => (total = 20400 /\ avg = <<1700, 1>>)

C5_Witness ==
    /\ outcome = "ok"
    /\ start_month = 0
    /\ end_month = 11
    /\ selected_metric = "Expenses"
    /\ avg = <<6325, 6>>

\* C6: every reachable selection satisfies 0 <= start <= end <= 11, its
\* view is non-empty and the run ends without an exception.
C6_SelectionValid ==
    /\ 0 <= start_month
    /\ start_month <= end_month
    /\ end_month <= 11
    /\ Len(filtered_df) >= 1
    /\ outcome = "ok"

C6_Witness ==
    /\ start_month = 11
    /\ end_month = 11
    /\ selected_metric = "Customers"
    /\ Len(filtered_df) = 1
    /\ outcome = "ok"

\* C7: after any interactions the table is the original one: 12 rows,
\* Months Jan..Dec unique and in calendar order, the original values.
C7_TableUnchanged ==
    /\ Len(df) = 12
    /\ Column(df, "Month") = CalendarMonths
    /\ \A i, j \in 1..Len(df) : df[i].Month = df[j].Month => i = j
    /\ df = load_data

C7_Witness ==
    /\ selected_metric = "Expenses"
    /\ start_month = 4
    /\ end_month = 6
    /\ outcome = "ok"
    /\ df = load_data

\* C8: the metrics and both charts shown are those of the current
\* (metric, start, end), whatever was selected before.
C8_OutputsOfCurrentSelection ==
    LET view == FilterView(load_data, start_month, end_month)
        m == calculate_metrics(view, selected_metric)
    IN  /\ outcome = "ok"
        /\ m.status = "ok"
        /\ <<total, avg, growth>> = <<m.total, m.avg, m.growth>>
        /\ line_fig = update_line_chart(view, selected_metric)
        /\ bar_fig = update_bar_chart(view)

C8_Witness ==
    /\ outcome = "ok"
    /\ selected_metric = "Customers"
    /\ start_month = 3
    /\ end_month = 7
    /\ total = 750
    /\ avg = <<150, 1>>

\* C9: the line chart has one point per row of the view, in view order:
\* point i is (Month of row i, selected metric of row i).
C9_LineChartPoints ==
    /\ outcome = "ok"
    /\ Len(line_fig.points) = Len(filtered_df)
    /\ Len(line_fig.points) = end_month - start_month + 1
    /\ \A i \in 1..Len(filtered_df) :
         /\ line_fig.points[i].x = filtered_df[i].Month
         /\ line_fig.points[i].y = filtered_df[i][selected_metric]
         /\ line_fig.points[i].x = CalendarMonths[start_month + i]

C9_Witness ==
    /\ outcome = "ok"
    /\ selected_metric = "Expenses"
    /\ start_month = 0
    /\ end_month = 2
    /\ line_fig.points = << [x |-> "Jan", y |-> 800], [x |-> "Feb", y |-> 850],
                            [x |-> "Mar", y |-> 750] >>

\* C10: for a single-row view the growth is 0 and the total and the
\* average both equal the row's value.
C10_SingleRowView ==
    (start_month = end_month) =>
      /\ outcome = "ok"
      /\ Len(filtered_df) = 1
      /\ growth = <<0, 1>>
      /\ total = load_data[start_month + 1][selected_metric]
      /\ avg = <<total, 1>>

C10_Witness ==
    /\ outcome = "ok"
    /\ start_month = 5
    /\ end_month = 5
    /\ selected_metric = "Sales"
    /\ total = 1700
    /\ growth = <<0, 1>>

====
